---- MODULE Spec2Model ----
(***************************************************************************)
(* pycraft: the Builder (core/builder.py), its scoped construction handles *)
(* (builder/control_flow.py, builder/functions.py) and the CodeGenerator   *)
(* (generator/base.py).                                                    *)
(*                                                                         *)
(* Python objects are references: the model keeps a heap of node records,  *)
(* a node being its index in the heap, and every list (root_nodes, body,   *)
(* or_else, handlers, finalbody, cases, _stack) is a sequence of indices.  *)
(* Index 0 stands for "no node" / the top-level sequence.                  *)
(***************************************************************************)
EXTENDS Integers, Sequences, FiniteSets, TLC

VARIABLES
    heap,          \* every object created so far: nodes and FinallyBuilder handles
    root_nodes,    \* Builder.root_nodes
    _stack,        \* Builder._stack, innermost last
    ops,           \* history: the builder operations performed, in order
    indent_level,  \* CodeGenerator.indent_level, per generator instance
    renders,       \* history: what generate returned since the tree last changed
    files,         \* the output directory: the files written, name and text
    last_call      \* history: the last call that can raise, and how it ended

vars == <<heap, root_nodes, _stack, ops, indent_level, renders, files, last_call>>

builderVars == <<heap, root_nodes, _stack, ops>>

-----------------------------------------------------------------------------
(* Bounds of the model *)

\* objects the caller may create (scoped opens and add_node calls), full model
MaxNodes == 3
\* scoped opens and add_node calls in the if / elif / else model
MaxIfScopes == 3
MaxIfStmts == 3
\* scoped opens and add_node calls in the try / except / finally model
MaxTryScopes == 4
MaxTryStmts == 2
\* objects the caller may create in the rendering model
MaxGenNodes == 2
\* generate calls recorded between two changes of the tree
MaxRenders == 2
\* objects the caller may create in the model of the lists
MaxListNodes == 3
\* objects the caller may create, and files written, in the model of the caller
MaxCallerNodes == 3
MaxFiles == 1

-----------------------------------------------------------------------------
(* The node model *)

\* identifiers used for names, tests, subjects, patterns and statement values
Names == {"x"}

\* the generator instances; both use the default indentation unit
Generators == {1, 2}

indent_char == "\t"

\* classes that declare a `body` attribute: isinstance(obj, BodyNode) holds
BodyKinds ==
    {"FunctionDef", "AsyncFunctionDef", "ClassDef", "If", "Elif", "Else",
     "For", "AsyncFor", "While", "MatchCase", "Try", "ExceptHandler", "With",
     "Finally", "Module", "FinallyBuilder"}

BodyNode(kind) == kind \in BodyKinds

\* mutant: only the classes the generator has a rule for count as nodes
BaseNode_known(kind) == kind \notin {"FinallyBuilder", "Finally", "Module"}

\* FinallyBuilder is a handle, not a node
BaseNode(kind) == kind # "FinallyBuilder"

\* Arg(arg=name, annotation=ann): "" stands for the annotation None
Arg(name, ann) == [arg |-> name, annotation |-> ann]

\* Arguments(args=positional, kwonlyargs=kwonly); Arguments() has both empty
Arguments(positional, kwonly) == [args |-> positional, kwonlyargs |-> kwonly]

\* a freshly constructed object: every list it declares is empty; `args` is
\* read on function nodes only
NewNode(kind, v) ==
    [kind |-> kind, val |-> v, body |-> <<>>, or_else |-> <<>>,
     handlers |-> <<>>, finalbody |-> <<>>, cases |-> <<>>,
     args |-> Arguments(<<>>, <<>>)]

Last(s) == s[Len(s)]

Front(s) == SubSeq(s, 1, Len(s) - 1)

Top(stk) == IF stk = <<>> THEN 0 ELSE Last(stk)

-----------------------------------------------------------------------------
(* Builder *)

\* Builder._get_current_body: the object whose body is the insertion target,
\* 0 for root_nodes
_get_current_body(h, stk) ==
    IF stk # <<>> /\ BodyNode(h[Last(stk)].kind) THEN Last(stk) ELSE 0

\* mutant: the node is inserted at the front of the list
BodyAppend_front(h, t, n) == IF t = 0 THEN h ELSE [h EXCEPT ![t].body = <<n>> \o @]

\* mutant: the node is appended to the or_else of the target
BodyAppend_toOrElse(h, t, n) == IF t = 0 THEN h ELSE [h EXCEPT ![t].or_else = Append(@, n)]

\* <list>.append(n) on the list _get_current_body returned
BodyAppend(h, t, n) == IF t = 0 THEN h ELSE [h EXCEPT ![t].body = Append(@, n)]

\* mutant: the node also goes to the top-level sequence when a parent took it
RootAppend_always(r, t, n) == Append(r, n)

RootAppend(r, t, n) == IF t = 0 THEN Append(r, n) ELSE r

\* "if isinstance(node, BodyNode) and not node.body: node.body.append(Pass())"
EnsurePass(h, n) ==
    IF BodyNode(h[n].kind) /\ h[n].body = <<>>
    THEN Append([h EXCEPT ![n].body = <<Len(h) + 1>>], NewNode("Pass", ""))
    ELSE h

\* the entry appended to the history
Op(o, n, p) == [op |-> o, node |-> n, par |-> p]

\* mutant: the open already appends the node to the top-level sequence
_push_node_attached(kind, v) ==
    /\ heap' = Append(heap, NewNode(kind, v))
    /\ _stack' = Append(_stack, Len(heap) + 1)
    /\ root_nodes' = Append(root_nodes, Len(heap) + 1)
    /\ ops' = Append(ops, Op("open", Len(heap) + 1, Top(_stack)))

\* Builder._push_node of a fresh object of the given kind
_push_node(kind, v) ==
    /\ heap' = Append(heap, NewNode(kind, v))
    /\ _stack' = Append(_stack, Len(heap) + 1)
    /\ root_nodes' = root_nodes
    /\ ops' = Append(ops, Op("open", Len(heap) + 1, Top(_stack)))

\* Builder._pop_node
_pop_node ==
    /\ _stack # <<>>
    /\ LET node == Last(_stack)
           stk  == Front(_stack)
           h1   == EnsurePass(heap, node)
           t    == _get_current_body(h1, stk)
       IN  /\ _stack' = stk
           /\ heap' = BodyAppend(h1, t, node)
           /\ root_nodes' = RootAppend(root_nodes, t, node)
           /\ ops' = Append(ops, Op("close", node, Top(stk)))

TopKind == IF _stack = <<>> THEN "none" ELSE heap[Last(_stack)].kind

\* Builder.add_node of a fresh plain statement Expr(value=Name(id=v))
add_node ==
    \E v \in Names :
        LET n == Len(heap) + 1
            h1 == Append(heap, NewNode("Expr", v))
            t == _get_current_body(h1, _stack)
        IN  /\ heap' = BodyAppend(h1, t, n)
            /\ root_nodes' = RootAppend(root_nodes, t, n)
            /\ _stack' = _stack
            /\ ops' = Append(ops, Op("add", n, Top(_stack)))

\* node classes the caller constructs and hands to add_node, with the
\* defaults of the dataclass: every list empty
CallerKinds == {"While", "Finally", "Module"}

\* Builder.add_node of a fresh node of class kind
add_node_of(kind) ==
    \E v \in Names :
        LET n == Len(heap) + 1
            h1 == Append(heap, NewNode(kind, v))
            t == _get_current_body(h1, _stack)
        IN  /\ heap' = BodyAppend(h1, t, n)
            /\ root_nodes' = RootAppend(root_nodes, t, n)
            /\ _stack' = _stack
            /\ ops' = Append(ops, Op("add", n, Top(_stack)))

\* the loop of _ensure_pass_in_empty_bodies, from position i of nodes on
RECURSIVE EnsurePassEach(_, _, _)
EnsurePassEach(h, nodes, i) ==
    IF i > Len(nodes)
    THEN h
    ELSE EnsurePassEach(EnsurePass(h, nodes[i]), nodes, i + 1)

\* Builder._ensure_pass_in_empty_bodies
_ensure_pass_in_empty_bodies(h, r) == EnsurePassEach(h, r, 1)

\* the Builder context was exited
Exited == \E i \in 1..Len(ops) : ops[i].op = "exit"

\* Builder.__exit__: the Builder is the outermost context, it exits when
\* the scoped operations in it have exited
Builder_exit ==
    /\ _stack = <<>>
    /\ ~Exited
    /\ heap' = _ensure_pass_in_empty_bodies(heap, root_nodes)
    /\ root_nodes' = root_nodes
    /\ _stack' = _stack
    /\ ops' = Append(ops, Op("exit", 0, 0))

-----------------------------------------------------------------------------
(* Scoped construction handles: __enter__ *)

IfBuilder_enter == \E v \in Names : _push_node("If", v)

ElifBuilder_enter == \E v \in Names : _push_node("Elif", v)

ElseBuilder_enter == _push_node("Else", "")

MatchBuilder_enter == \E v \in Names : _push_node("Match", v)

CaseBuilder_enter == \E v \in Names : _push_node("MatchCase", v)

ForBuilder_enter == \E v \in Names : _push_node("For", v)

AsyncForBuilder_enter == \E v \in Names : _push_node("AsyncFor", v)

WhileBuilder_enter == \E v \in Names : _push_node("While", v)

TryBuilder_enter == _push_node("Try", "")

ExceptBuilder_enter == \E v \in Names : _push_node("ExceptHandler", v)

FinallyBuilder_enter == _push_node("FinallyBuilder", "")

WithBuilder_enter == \E v \in Names : _push_node("With", v)

FunctionDefBuilder_enter == \E v \in Names : _push_node("FunctionDef", v)

AsyncFunctionDefBuilder_enter == \E v \in Names : _push_node("AsyncFunctionDef", v)

ClassDefBuilder_enter == \E v \in Names : _push_node("ClassDef", v)

\* how a call ended: the call, the argument that decides it, the exception
Call(c, a, e) == [call |-> c, arg |-> a, exc |-> e]

\* a call that takes no such argument and raises nothing
NoCall == Call("", "", "none")

\* what a caller passes as decorators_list: None, a list, or something that
\* is neither (a tuple)
DecoratorsValues == {"None", "list", "tuple"}

\* mutant: the isinstance test is missing
DecoratorsAccepted_any(d) == TRUE

\* FunctionDefBuilder.__init__ goes on: "decorators_list is None" or
\* "isinstance(decorators_list, list)"
DecoratorsAccepted(d) == d = "None" \/ d = "list"

\* func(...) / async_func(...) used as a with-block: FunctionDefBuilder.__init__
\* with the decorators d, then __enter__ when __init__ returned
FunctionDefBuilder_new(d, is_async) ==
    IF DecoratorsAccepted(d)
    THEN /\ \E v \in Names :
               _push_node(IF is_async THEN "AsyncFunctionDef" ELSE "FunctionDef", v)
         /\ last_call' = Call("FunctionDefBuilder", d, "none")
         /\ renders' = <<>>
         /\ UNCHANGED <<indent_level, files>>
    ELSE /\ last_call' = Call("FunctionDefBuilder", d, "ValueError")
         /\ UNCHANGED <<heap, root_nodes, _stack, ops, indent_level, renders, files>>

-----------------------------------------------------------------------------
(* Scoped construction handles: __exit__.  A with-block exits when the     *)
(* blocks nested in it have exited, so the handle that exits is the one    *)
(* whose object is on top of the stack.                                    *)

PlainKinds ==
    {"If", "Match", "For", "AsyncFor", "While", "Try", "With",
     "FunctionDef", "AsyncFunctionDef", "ClassDef"}

\* IfBuilder, MatchBuilder, ForBuilder, WhileBuilder, TryBuilder, WithBuilder,
\* FunctionDefBuilder, ClassDefBuilder: __exit__ is one call of _pop_node
PlainBuilder_exit ==
    /\ TopKind \in PlainKinds
    /\ _pop_node

\* the classes ElifBuilder.__exit__ and ElseBuilder.__exit__ accept as parent
OrElseParents == {"If", "While", "Try"}

\* mutant: the Elif goes to the parent's body instead of its or_else
OrElseAppend_toBody(h, p, n) == [h EXCEPT ![p].body = Append(@, n)]

OrElseAppend(h, p, n) == [h EXCEPT ![p].or_else = Append(@, n)]

\* mutant: or_else is assigned instead of extended
OrElseExtend_replace(h, p, n) == [h EXCEPT ![p].or_else = h[n].body]

\* mutant: the Else node itself is appended instead of its statements
OrElseExtend_wrapped(h, p, n) == [h EXCEPT ![p].or_else = Append(@, n)]

OrElseExtend(h, p, n) == [h EXCEPT ![p].or_else = @ \o h[n].body]

\* the heap after ElifBuilder.__exit__ popped `node` and left `stk`
ElifAttach(h, stk, node) ==
    IF stk # <<>>
    THEN IF h[Last(stk)].kind \in OrElseParents
         THEN OrElseAppend(h, Last(stk), node)
         ELSE BodyAppend(h, _get_current_body(h, stk), node)
    ELSE h

\* mutant: the branch for the empty stack is missing, as in ExceptBuilder
OrElseRoot_dropped(h, r, stk, node) ==
    IF stk # <<>>
    THEN IF h[Last(stk)].kind \in OrElseParents
         THEN r
         ELSE RootAppend(r, _get_current_body(h, stk), node)
    ELSE r

\* the top-level sequence after ElifBuilder.__exit__ / ElseBuilder.__exit__
OrElseRoot(h, r, stk, node) ==
    IF stk # <<>>
    THEN IF h[Last(stk)].kind \in OrElseParents
         THEN r
         ELSE RootAppend(r, _get_current_body(h, stk), node)
    ELSE Append(r, node)

ElifBuilder_exit ==
    /\ TopKind = "Elif"
    /\ LET node == Last(_stack)
           stk  == Front(_stack)
           h1   == EnsurePass(heap, node)
       IN  /\ _stack' = stk
           /\ heap' = ElifAttach(h1, stk, node)
           /\ root_nodes' = OrElseRoot(h1, root_nodes, stk, node)
           /\ ops' = Append(ops, Op("close", node, Top(stk)))

\* the heap after ElseBuilder.__exit__ popped `node` and left `stk`
ElseAttach(h, stk, node) ==
    IF stk # <<>>
    THEN IF h[Last(stk)].kind \in OrElseParents /\ BodyNode(h[node].kind)
         THEN OrElseExtend(h, Last(stk), node)
         ELSE BodyAppend(h, _get_current_body(h, stk), node)
    ELSE h

ElseBuilder_exit ==
    /\ TopKind = "Else"
    /\ LET node == Last(_stack)
           stk  == Front(_stack)
           h1   == EnsurePass(heap, node)
       IN  /\ _stack' = stk
           /\ heap' = ElseAttach(h1, stk, node)
           /\ root_nodes' = OrElseRoot(h1, root_nodes, stk, node)
           /\ ops' = Append(ops, Op("close", node, Top(stk)))

\* the heap after CaseBuilder.__exit__ popped `node` and left `stk`
CaseAttach(h, stk, node) ==
    IF stk # <<>> /\ h[Last(stk)].kind = "Match"
    THEN [h EXCEPT ![Last(stk)].cases = Append(@, node)]
    ELSE h

CaseBuilder_exit ==
    /\ TopKind = "MatchCase"
    /\ LET node == Last(_stack)
           stk  == Front(_stack)
           h1   == EnsurePass(heap, node)
       IN  /\ _stack' = stk
           /\ heap' = CaseAttach(h1, stk, node)
           /\ root_nodes' = root_nodes
           /\ ops' = Append(ops, Op("close", node, Top(stk)))

\* mutant: the handler is inserted in front of the handlers already there
ExceptAttach_front(h, stk, node) ==
    IF stk # <<>>
    THEN IF h[Last(stk)].kind = "Try"
         THEN [h EXCEPT ![Last(stk)].handlers = <<node>> \o @]
         ELSE BodyAppend(h, _get_current_body(h, stk), node)
    ELSE h

\* the heap after ExceptBuilder.__exit__ popped `node` and left `stk`
ExceptAttach(h, stk, node) ==
    IF stk # <<>>
    THEN IF h[Last(stk)].kind = "Try"
         THEN [h EXCEPT ![Last(stk)].handlers = Append(@, node)]
         ELSE BodyAppend(h, _get_current_body(h, stk), node)
    ELSE h

\* the top-level sequence after ExceptBuilder.__exit__
ExceptRoot(h, r, stk, node) ==
    IF stk # <<>>
    THEN IF h[Last(stk)].kind = "Try"
         THEN r
         ELSE RootAppend(r, _get_current_body(h, stk), node)
    ELSE r

ExceptBuilder_exit ==
    /\ TopKind = "ExceptHandler"
    /\ LET node == Last(_stack)
           stk  == Front(_stack)
           h1   == EnsurePass(heap, node)
       IN  /\ _stack' = stk
           /\ heap' = ExceptAttach(h1, stk, node)
           /\ root_nodes' = ExceptRoot(h1, root_nodes, stk, node)
           /\ ops' = Append(ops, Op("close", node, Top(stk)))

\* mutant: finalbody is assigned instead of extended
FinalbodyExtend_replace(h, p, f) == [h EXCEPT ![p].finalbody = h[f].body]

\* "parent.finalbody.extend(self.temp_body)"
FinalbodyExtend(h, p, f) == [h EXCEPT ![p].finalbody = @ \o h[f].body]

\* mutant: a finally block without a Try below it falls back to the
\* current body, as an else and a handler do
FinallyAttach_fallback(h, stk, f) ==
    IF stk # <<>> /\ h[Last(stk)].kind = "Try"
    THEN FinalbodyExtend(h, Last(stk), f)
    ELSE IF stk # <<>>
         THEN BodyAppend(h, _get_current_body(h, stk), f)
         ELSE h

\* the heap after FinallyBuilder.__exit__ popped the handle `f` and left `stk`
FinallyAttach(h, stk, f) ==
    IF stk # <<>> /\ h[Last(stk)].kind = "Try"
    THEN FinalbodyExtend(h, Last(stk), f)
    ELSE h

FinallyBuilder_exit ==
    /\ TopKind = "FinallyBuilder"
    /\ LET f   == Last(_stack)
           stk == Front(_stack)
           h1  == EnsurePass(heap, f)
       IN  /\ _stack' = stk
           /\ heap' = FinallyAttach(h1, stk, f)
           /\ root_nodes' = root_nodes
           /\ ops' = Append(ops, Op("close", f, Top(stk)))

-----------------------------------------------------------------------------
(* CodeGenerator.  A text is the sequence of its lines (what split("\n")   *)
(* gives, so the empty string is one empty line) and a line the sequence   *)
(* of its pieces, the indentation units first.  Every rule returns the     *)
(* text together with indent_level as the rule leaves it.                  *)

EmptyStr == << <<>> >>

RECURSIVE Concat(_)
Concat(texts) == IF texts = <<>> THEN <<>> ELSE Head(texts) \o Concat(Tail(texts))

\* "\n".join(lines), each element itself a text
Join(texts) == IF texts = <<>> THEN EmptyStr ELSE Concat(texts)

\* indent_char * indent_level
Indent(lvl) == [i \in 1..lvl |-> indent_char]

\* f"{indent}..." : one line
Line(lvl, pieces) == << Indent(lvl) \o pieces >>

\* _generate_expr of an Arg: the name, then ": annotation" if there is one
_generate_arg(a) ==
    IF a.annotation # "" THEN <<a.arg, ": ", a.annotation>> ELSE <<a.arg>>

\* ", ".join(parts), each part a sequence of pieces
RECURSIVE JoinComma(_)
JoinComma(parts) ==
    IF parts = <<>> THEN <<>>
    ELSE IF Len(parts) = 1 THEN parts[1]
    ELSE parts[1] \o <<", ">> \o JoinComma(Tail(parts))

\* mutant: the parameters are left out of the header
_generate_arguments_none(args) == <<>>

\* CodeGenerator._generate_arguments
_generate_arguments(args) ==
    LET regular == [i \in 1..Len(args.args) |-> _generate_arg(args.args[i])]
        star == IF args.kwonlyargs # <<>> /\ regular = <<>> THEN << <<"*">> >> ELSE <<>>
        kwonly == [i \in 1..Len(args.kwonlyargs) |-> _generate_arg(args.kwonlyargs[i])]
    IN  JoinComma(regular \o star \o kwonly)

\* the header line of a node, without its indentation
Header(nd) ==
    CASE nd.kind = "ClassDef" -> <<"class ", nd.val, ":">>
      [] nd.kind = "FunctionDef" ->
            <<"def ", nd.val, "(">> \o _generate_arguments(nd.args) \o <<")", ":">>
      [] nd.kind = "AsyncFunctionDef" ->
            <<"async def ", nd.val, "(">> \o _generate_arguments(nd.args) \o <<")", ":">>
      [] nd.kind = "Return" ->
            IF nd.val # "" THEN <<"return ", nd.val>> ELSE <<"return">>
      [] nd.kind = "If" -> <<"if ", nd.val, ":">>
      [] nd.kind = "Elif" -> <<"elif ", nd.val, ":">>
      [] nd.kind = "Else" -> <<"else:">>
      [] nd.kind = "For" -> <<"for ", nd.val, " in ", nd.val, ":">>
      [] nd.kind = "AsyncFor" -> <<"async for ", nd.val, " in ", nd.val, ":">>
      [] nd.kind = "While" -> <<"while ", nd.val, ":">>
      [] nd.kind = "With" -> <<"with ", nd.val, ":">>
      [] nd.kind = "Try" -> <<"try:">>
      [] nd.kind = "Match" -> <<"match ", nd.val, ":">>
      [] nd.kind = "MatchCase" -> <<"case ", nd.val, ":">>
      [] nd.kind = "ExceptHandler" -> <<"except", " ", nd.val, ":">>
      [] nd.kind = "Expr" -> <<nd.val>>
      [] nd.kind = "Pass" -> <<"pass">>
      [] OTHER -> <<"# Unknown node: ", nd.kind>>

\* "self.indent_level += 1" before a block
Deeper(lvl) == lvl + 1

\* mutant: the decrement after a block is missing
Shallower_forgotten(lvl) == lvl

\* "self.indent_level -= 1" after a block
Shallower(lvl) == lvl - 1

RECURSIVE _generate_node(_, _, _), GenerateEach(_, _, _, _, _, _)

\* the loop over a list of nodes: `nodes` from position i on, the texts
\* collected so far in acc.  filtered: the loop of _generate_nodes, which
\* skips what is no BaseNode and what rendered as the empty string; the
\* loops over or_else, handlers and cases append every result.
GenerateEach(h, nodes, i, lvl, acc, filtered) ==
    IF i > Len(nodes)
    THEN [texts |-> acc, lvl |-> lvl]
    ELSE IF filtered /\ ~BaseNode(h[nodes[i]].kind)
         THEN GenerateEach(h, nodes, i + 1, lvl, acc, filtered)
         ELSE LET r == _generate_node(h, nodes[i], lvl)
              IN  GenerateEach(h, nodes, i + 1, r.lvl,
                      IF filtered /\ r.code = EmptyStr THEN acc ELSE Append(acc, r.code),
                      filtered)

\* CodeGenerator._generate_nodes
_generate_nodes(h, nodes, lvl) ==
    LET r == GenerateEach(h, nodes, 1, lvl, <<>>, TRUE)
    IN  [code |-> Join(r.texts), lvl |-> r.lvl]

\* "self.indent_level += 1; code = self._generate_nodes(nodes);
\*  self.indent_level -= 1"
Block(h, nodes, lvl) ==
    LET r == _generate_nodes(h, nodes, Deeper(lvl))
    IN  [code |-> r.code, lvl |-> Shallower(r.lvl)]

\* mutant: the clause is emitted without looking at the list
Clause_always(h, head, nodes, ind, lvl) ==
    LET b == Block(h, nodes, lvl)
    IN  [texts |-> <<Line(ind, <<head>>), b.code>>, lvl |-> b.lvl]

\* "if node.or_else: lines.append(f"{indent}else:"); <block>" and the same
\* for finalbody: the texts appended to lines, and the level after
Clause(h, head, nodes, ind, lvl) ==
    IF nodes = <<>>
    THEN [texts |-> <<>>, lvl |-> lvl]
    ELSE LET b == Block(h, nodes, lvl)
         IN  [texts |-> <<Line(ind, <<head>>), b.code>>, lvl |-> b.lvl]

\* the If rule's loop over node.or_else
IfOrElse(h, nodes, lvl) == GenerateEach(h, nodes, 1, lvl, <<>>, FALSE)

\* CodeGenerator._generate_node, for the statement kinds the builder makes
_generate_node(h, n, lvl) ==
    LET nd == h[n]
        k  == nd.kind
        head == Line(lvl, Header(nd))
    IN  CASE k \in {"ClassDef", "FunctionDef", "AsyncFunctionDef", "Elif", "Else",
                    "With", "MatchCase", "ExceptHandler"} ->
                LET b == Block(h, nd.body, lvl)
                IN  [code |-> Join(<<head, b.code>>), lvl |-> b.lvl]
          [] k = "If" ->
                LET b == Block(h, nd.body, lvl)
                    e == IfOrElse(h, nd.or_else, b.lvl)
                IN  [code |-> Join(<<head, b.code>> \o e.texts), lvl |-> e.lvl]
          [] k \in {"For", "AsyncFor", "While"} ->
                LET b == Block(h, nd.body, lvl)
                    e == Clause(h, "else:", nd.or_else, lvl, b.lvl)
                IN  [code |-> Join(<<head, b.code>> \o e.texts), lvl |-> e.lvl]
          [] k = "Try" ->
                LET b == Block(h, nd.body, lvl)
                    hs == GenerateEach(h, nd.handlers, 1, b.lvl, <<>>, FALSE)
                    e == Clause(h, "else:", nd.or_else, lvl, hs.lvl)
                    f == Clause(h, "finally:", nd.finalbody, lvl, e.lvl)
                IN  [code |-> Join(<<head, b.code>> \o hs.texts \o e.texts \o f.texts),
                     lvl |-> f.lvl]
          [] k = "Match" ->
                LET cs == GenerateEach(h, nd.cases, 1, Deeper(lvl), <<>>, FALSE)
                IN  [code |-> Join(<<head>> \o cs.texts), lvl |-> Shallower(cs.lvl)]
          [] OTHER -> [code |-> head, lvl |-> lvl]

\* mutant: rendering consumes the top-level sequence
ReadOnly_draining == root_nodes' = <<>> /\ UNCHANGED <<heap, _stack, ops>>

\* what generate does to the builder it is given: it reads root_nodes and
\* the nodes below, and assigns to none of them
ReadOnly == UNCHANGED builderVars

\* CodeGenerator.generate(builder) by generator g, in the default mode
\* (console), which prints the text and returns it
generate(g) ==
    LET r == _generate_nodes(heap, root_nodes, indent_level[g])
    IN  /\ Len(renders) < MaxRenders
        /\ indent_level' = [indent_level EXCEPT ![g] = r.lvl]
        /\ renders' = Append(renders, [gen |-> g, code |-> r.code])
        /\ files' = files
        /\ last_call' = NoCall
        /\ ReadOnly

\* what a caller passes as file_name: None ("None" stands for it), the empty
\* string, or a name
FileNames == {"None", "", "out.py"}

\* mutant: only None counts as missing
Falsy_noneOnly(file_name) == file_name = "None"

\* "not file_name"
Falsy(file_name) == file_name = "None" \/ file_name = ""

\* Path(path) / file_name).write_text(code): the file is created or replaced
write_text(fs, file_name, code) ==
    {f \in fs : f.name # file_name} \cup {[name |-> file_name, text |-> code]}

\* CodeGenerator.generate(builder, mode="file", file_name=file_name) by
\* generator g: the text is generated first, then the name is looked at
generate_file(g, file_name) ==
    LET r == _generate_nodes(heap, root_nodes, indent_level[g])
    IN  /\ indent_level' = [indent_level EXCEPT ![g] = r.lvl]
        /\ IF Falsy(file_name)
           THEN /\ last_call' = Call("generate", file_name, "ValueError")
                /\ UNCHANGED <<renders, files>>
           ELSE /\ last_call' = Call("generate", file_name, "none")
                /\ renders' = Append(renders, [gen |-> g, code |-> r.code])
                /\ files' = write_text(files, file_name, r.code)
        /\ ReadOnly

-----------------------------------------------------------------------------
(* Specifications *)

\* CodeGenerator.__init__ and Builder.__init__
Init ==
    /\ heap = <<>>
    /\ root_nodes = <<>>
    /\ _stack = <<>>
    /\ ops = <<>>
    /\ indent_level = [g \in Generators |-> 0]
    /\ renders = <<>>
    /\ files = {}
    /\ last_call = NoCall

\* objects created by the caller so far
Created == Cardinality({i \in 1..Len(ops) : ops[i].op # "close"})

\* a builder step leaves the generators alone; the tree it renders changed
BuilderStep == /\ indent_level' = indent_level
               /\ renders' = <<>>
               /\ files' = files
               /\ last_call' = NoCall

\* the builder with every scoped operation
Next ==
    \/ Created < MaxNodes /\ IfBuilder_enter /\ BuilderStep
    \/ Created < MaxNodes /\ ElifBuilder_enter /\ BuilderStep
    \/ Created < MaxNodes /\ ElseBuilder_enter /\ BuilderStep
    \/ Created < MaxNodes /\ MatchBuilder_enter /\ BuilderStep
    \/ Created < MaxNodes /\ CaseBuilder_enter /\ BuilderStep
    \/ Created < MaxNodes /\ ForBuilder_enter /\ BuilderStep
    \/ Created < MaxNodes /\ AsyncForBuilder_enter /\ BuilderStep
    \/ Created < MaxNodes /\ WhileBuilder_enter /\ BuilderStep
    \/ Created < MaxNodes /\ TryBuilder_enter /\ BuilderStep
    \/ Created < MaxNodes /\ ExceptBuilder_enter /\ BuilderStep
    \/ Created < MaxNodes /\ FinallyBuilder_enter /\ BuilderStep
    \/ Created < MaxNodes /\ WithBuilder_enter /\ BuilderStep
    \/ Created < MaxNodes /\ FunctionDefBuilder_enter /\ BuilderStep
    \/ Created < MaxNodes /\ AsyncFunctionDefBuilder_enter /\ BuilderStep
    \/ Created < MaxNodes /\ ClassDefBuilder_enter /\ BuilderStep
    \/ Created < MaxNodes /\ add_node /\ BuilderStep
    \/ PlainBuilder_exit /\ BuilderStep
    \/ ElifBuilder_exit /\ BuilderStep
    \/ ElseBuilder_exit /\ BuilderStep
    \/ CaseBuilder_exit /\ BuilderStep
    \/ ExceptBuilder_exit /\ BuilderStep
    \/ FinallyBuilder_exit /\ BuilderStep

Spec == Init /\ [][Next]_vars

\* scoped operations entered so far, and add_node calls made so far
Opened == Cardinality({i \in 1..Len(ops) : ops[i].op = "open"})

Added == Cardinality({i \in 1..Len(ops) : ops[i].op = "add"})

\* conditionals only: if, elif, else and plain statements
NextIf ==
    \/ Opened < MaxIfScopes /\ IfBuilder_enter /\ BuilderStep
    \/ Opened < MaxIfScopes /\ ElifBuilder_enter /\ BuilderStep
    \/ Opened < MaxIfScopes /\ ElseBuilder_enter /\ BuilderStep
    \/ Added < MaxIfStmts /\ add_node /\ BuilderStep
    \/ PlainBuilder_exit /\ BuilderStep
    \/ ElifBuilder_exit /\ BuilderStep
    \/ ElseBuilder_exit /\ BuilderStep

SpecIf == Init /\ [][NextIf]_vars

\* the caller writes the clauses of a protected block in the order of the
\* grammar: statements, then handlers, then one finally block
InTryBody == TopKind = "Try" => /\ heap[Last(_stack)].handlers = <<>>
                                /\ heap[Last(_stack)].finalbody = <<>>

BeforeFinally == TopKind = "Try" /\ heap[Last(_stack)].finalbody = <<>>

\* protected blocks only: try, except, finally and plain statements
NextTry ==
    \/ Opened < MaxTryScopes /\ InTryBody /\ TryBuilder_enter /\ BuilderStep
    \/ Opened < MaxTryScopes /\ BeforeFinally /\ ExceptBuilder_enter /\ BuilderStep
    \/ Opened < MaxTryScopes /\ BeforeFinally /\ FinallyBuilder_enter /\ BuilderStep
    \/ Added < MaxTryStmts /\ InTryBody /\ add_node /\ BuilderStep
    \/ PlainBuilder_exit /\ BuilderStep
    \/ ExceptBuilder_exit /\ BuilderStep
    \/ FinallyBuilder_exit /\ BuilderStep

SpecTry == Init /\ [][NextTry]_vars

\* the builder together with the generators
NextGen ==
    \/ Created < MaxGenNodes /\ IfBuilder_enter /\ BuilderStep
    \/ Created < MaxGenNodes /\ ElifBuilder_enter /\ BuilderStep
    \/ Created < MaxGenNodes /\ ElseBuilder_enter /\ BuilderStep
    \/ Created < MaxGenNodes /\ MatchBuilder_enter /\ BuilderStep
    \/ Created < MaxGenNodes /\ CaseBuilder_enter /\ BuilderStep
    \/ Created < MaxGenNodes /\ ForBuilder_enter /\ BuilderStep
    \/ Created < MaxGenNodes /\ AsyncForBuilder_enter /\ BuilderStep
    \/ Created < MaxGenNodes /\ WhileBuilder_enter /\ BuilderStep
    \/ Created < MaxGenNodes /\ TryBuilder_enter /\ BuilderStep
    \/ Created < MaxGenNodes /\ ExceptBuilder_enter /\ BuilderStep
    \/ Created < MaxGenNodes /\ FinallyBuilder_enter /\ BuilderStep
    \/ Created < MaxGenNodes /\ WithBuilder_enter /\ BuilderStep
    \/ Created < MaxGenNodes /\ FunctionDefBuilder_enter /\ BuilderStep
    \/ Created < MaxGenNodes /\ AsyncFunctionDefBuilder_enter /\ BuilderStep
    \/ Created < MaxGenNodes /\ ClassDefBuilder_enter /\ BuilderStep
    \/ Created < MaxGenNodes /\ add_node /\ BuilderStep
    \/ PlainBuilder_exit /\ BuilderStep
    \/ ElifBuilder_exit /\ BuilderStep
    \/ ElseBuilder_exit /\ BuilderStep
    \/ CaseBuilder_exit /\ BuilderStep
    \/ ExceptBuilder_exit /\ BuilderStep
    \/ FinallyBuilder_exit /\ BuilderStep
    \/ \E g \in Generators : generate(g)

SpecGen == Init /\ [][NextGen]_vars

\* the library as its caller uses it: function definitions and add_node
\* calls inside the Builder context, nodes of the caller's own making among
\* them, then the text written to a file
NextCaller ==
    \/ ~Exited /\ \E d \in DecoratorsValues, a \in BOOLEAN :
                     /\ d \in {"None", "list"} => Opened + Added < MaxCallerNodes
                     /\ FunctionDefBuilder_new(d, a)
    \/ ~Exited /\ Opened + Added < MaxCallerNodes /\ add_node /\ BuilderStep
    \/ ~Exited /\ Opened + Added < MaxCallerNodes
          /\ \E k \in CallerKinds : add_node_of(k) /\ BuilderStep
    \/ ~Exited /\ PlainBuilder_exit /\ BuilderStep
    \/ Builder_exit /\ BuilderStep
    \/ Exited /\ \E g \in Generators, f \in FileNames :
                    /\ f = "out.py" => Len(renders) < MaxFiles
                    /\ generate_file(g, f)

SpecCaller == Init /\ [][NextCaller]_vars

\* the lists of the tree: one scoped operation for each __exit__ there is
\* and, for _pop_node, one for each way a parent takes part in it: a parent
\* that takes continuations (If), one that does not (For), one without a
\* body (Match), one with handlers and a finalbody (Try)
NextLists ==
    \/ Created < MaxListNodes /\ IfBuilder_enter /\ BuilderStep
    \/ Created < MaxListNodes /\ ElifBuilder_enter /\ BuilderStep
    \/ Created < MaxListNodes /\ ElseBuilder_enter /\ BuilderStep
    \/ Created < MaxListNodes /\ MatchBuilder_enter /\ BuilderStep
    \/ Created < MaxListNodes /\ CaseBuilder_enter /\ BuilderStep
    \/ Created < MaxListNodes /\ ForBuilder_enter /\ BuilderStep
    \/ Created < MaxListNodes /\ TryBuilder_enter /\ BuilderStep
    \/ Created < MaxListNodes /\ ExceptBuilder_enter /\ BuilderStep
    \/ Created < MaxListNodes /\ FinallyBuilder_enter /\ BuilderStep
    \/ Created < MaxListNodes /\ add_node /\ BuilderStep
    \/ PlainBuilder_exit /\ BuilderStep
    \/ ElifBuilder_exit /\ BuilderStep
    \/ ElseBuilder_exit /\ BuilderStep
    \/ CaseBuilder_exit /\ BuilderStep
    \/ ExceptBuilder_exit /\ BuilderStep
    \/ FinallyBuilder_exit /\ BuilderStep

SpecLists == Init /\ [][NextLists]_vars

-----------------------------------------------------------------------------
(* Vocabulary of the claims *)

Kind(n) == heap[n].kind

LastOp == ops[Len(ops)]

\* the list _get_current_body returns in the current state
CurrentTarget ==
    LET t == _get_current_body(heap, _stack)
    IN  IF t = 0 THEN root_nodes ELSE heap[t].body

\* the operation before last entered node n and the last one exited it:
\* nothing was added in between
ClosedEmpty(n) ==
    /\ Len(ops) >= 2
    /\ LastOp = Op("close", n, LastOp.par)
    /\ ops[Len(ops) - 1].op = "open"
    /\ ops[Len(ops) - 1].node = n

\* the last Len(pat) operations are the ones pat lists, as <<operation, kind>>
EndsWith(pat) ==
    /\ Len(ops) >= Len(pat)
    /\ \A j \in 1..Len(pat) :
          LET o == ops[Len(ops) - Len(pat) + j]
          IN  o.op = pat[j][1] /\ Kind(o.node) = pat[j][2]

\* the node of the j-th of the last len operations
NodeAt(len, j) == ops[Len(ops) - len + j].node

\* the operations performed while node t was the top of the stack
\* (t = 0: while the stack was empty)
DirectOps(t) == SelectSeq(ops, LAMBDA o : o.par = t)

Range(seq) == {seq[i] : i \in 1..Len(seq)}

\* every list a node holds
Children(h, n) ==
    Range(h[n].body) \cup Range(h[n].or_else) \cup Range(h[n].handlers)
        \cup Range(h[n].finalbody) \cup Range(h[n].cases)

RECURSIVE Reach(_, _, _)
Reach(h, frontier, seen) ==
    IF frontier = {}
    THEN seen
    ELSE LET new == (UNION {Children(h, n) : n \in frontier}) \ (seen \cup frontier)
         IN  Reach(h, new, seen \cup frontier)

\* the nodes of the tree: what a walk from root_nodes meets
InTree == Reach(heap, Range(root_nodes), {})

\* the number of indentation units a line starts with
RECURSIVE PrefixLen(_)
PrefixLen(line) ==
    IF line # <<>> /\ Head(line) = indent_char THEN 1 + PrefixLen(Tail(line)) ELSE 0

\* the depths the formulas render a node at
Depths == 0..2

-----------------------------------------------------------------------------
(* C1 *)

\* C1: a composite opened through a scoped operation and closed with nothing
\* added has exactly one Pass in its body and renders as its header line
\* followed by one "pass" line one level deeper (a finally block: as the
\* last clause of the Try it is closed under).
C1_EmptyCompositeHoldsOnePass ==
    \A n \in 1..Len(heap) :
        ClosedEmpty(n) =>
            /\ Len(heap[n].body) = 1
            /\ Kind(heap[n].body[1]) = "Pass"
            /\ \A d \in Depths :
                  IF Kind(n) # "FinallyBuilder"
                  THEN _generate_node(heap, n, d).code =
                          Line(d, Header(heap[n])) \o Line(d + 1, <<"pass">>)
                  ELSE LastOp.par # 0 /\ Kind(LastOp.par) = "Try" =>
                          LET t == _generate_node(heap, LastOp.par, d).code
                          IN  SubSeq(t, Len(t) - 1, Len(t)) =
                                 Line(d, <<"finally:">>) \o Line(d + 1, <<"pass">>)

-----------------------------------------------------------------------------
(* C2, C3 *)

\* open if, add a statement, elif with one statement, else with one
\* statement, close the if
IfElifElse ==
    << <<"open", "If">>, <<"add", "Expr">>,
       <<"open", "Elif">>, <<"add", "Expr">>, <<"close", "Elif">>,
       <<"open", "Else">>, <<"add", "Expr">>, <<"close", "Else">>,
       <<"close", "If">> >>

\* C2: after that sequence the If's or_else is the Elif node, then the
\* else's statement itself, and the If is the last element of the current
\* insertion target.
C2_ChainShape ==
    EndsWith(IfElifElse) =>
        LET i  == NodeAt(9, 1)
            e  == NodeAt(9, 3)
            s2 == NodeAt(9, 4)
            l  == NodeAt(9, 6)
            s3 == NodeAt(9, 7)
        IN  /\ heap[i].or_else = <<e, s3>>
            /\ Kind(e) = "Elif"
            /\ heap[e].body = <<s2>>
            /\ heap[e].val \in Names
            /\ Kind(s3) = "Expr"
            /\ s3 # l
            /\ heap[i].body = <<NodeAt(9, 2)>>
            /\ CurrentTarget # <<>>
            /\ Last(CurrentTarget) = i

C2_Witness ==
    /\ EndsWith(IfElifElse)
    /\ Len(heap[NodeAt(9, 1)].or_else) = 2
    /\ Last(root_nodes) = NodeAt(9, 1)

\* C3: the If built by that sequence renders as the full chain: if, its
\* body one level deeper, elif, its body one level deeper, else:, the else
\* statement one level deeper.
C3_ChainRendersFully ==
    EndsWith(IfElifElse) =>
        \A d \in Depths :
            _generate_node(heap, NodeAt(9, 1), d).code =
                Line(d, <<"if ", heap[NodeAt(9, 1)].val, ":">>)
                \o Line(d + 1, <<heap[NodeAt(9, 2)].val>>)
                \o Line(d, <<"elif ", heap[NodeAt(9, 3)].val, ":">>)
                \o Line(d + 1, <<heap[NodeAt(9, 4)].val>>)
                \o Line(d, <<"else:">>)
                \o Line(d + 1, <<heap[NodeAt(9, 7)].val>>)

-----------------------------------------------------------------------------
(* C4 *)

\* the operations of kind `o` among those performed directly under t
DirectOf(t, o) == SelectSeq(DirectOps(t), LAMBDA e : e.op = o)

WasClosed(n) == \E i \in 1..Len(ops) : ops[i].op = "close" /\ ops[i].node = n

\* t is a closed Try under which exactly two except handlers and then one
\* finally block were opened, the finally block holding plain statements only
TwoHandlersThenFinally(t) ==
    /\ Kind(t) = "Try"
    /\ WasClosed(t)
    /\ LET opened == DirectOf(t, "open")
       IN  /\ Len(opened) = 3
           /\ Kind(opened[1].node) = "ExceptHandler"
           /\ Kind(opened[2].node) = "ExceptHandler"
           /\ Kind(opened[3].node) = "FinallyBuilder"
           /\ \A j \in 1..Len(DirectOps(opened[3].node)) :
                 DirectOps(opened[3].node)[j].op = "add"

\* C4: such a Try holds the two handlers in the order they were opened and
\* its finalbody is the statements added while the finally block was open,
\* in order (one Pass when there were none), whatever was added to its body.
C4_HandlersAndFinalbody ==
    \A t \in 1..Len(heap) :
        TwoHandlersThenFinally(t) =>
            LET opened == DirectOf(t, "open")
                added  == DirectOps(opened[3].node)
            IN  /\ heap[t].handlers = <<opened[1].node, opened[2].node>>
                /\ IF added = <<>>
                   THEN /\ Len(heap[t].finalbody) = 1
                        /\ Kind(heap[t].finalbody[1]) = "Pass"
                   ELSE heap[t].finalbody = [j \in 1..Len(added) |-> added[j].node]

C4_Witness ==
    \E t \in 1..Len(heap) :
        /\ TwoHandlersThenFinally(t)
        /\ DirectOf(t, "add") # <<>>
        /\ DirectOps(DirectOf(t, "open")[3].node) # <<>>

-----------------------------------------------------------------------------
(* C5 *)

\* C5: every render of the tree as it stands, by either generator, returned
\* the same text.
C5_RendersAgree ==
    \A i, j \in 1..Len(renders) : renders[i].code = renders[j].code

C5_Witness ==
    /\ Len(renders) = 2
    /\ renders[1].gen = renders[2].gen
    /\ \E n \in Range(root_nodes) : BodyNode(Kind(n))

-----------------------------------------------------------------------------
(* C6 *)

\* the lines that open a continuation clause of the node being rendered
ClauseHeads == {"elif ", "else:", "except", "finally:"}

\* C6: a node of the tree rendered at depth d starts its header with exactly
\* d indentation units, and every later line of it is deeper than d, the
\* headers of its own continuation clauses excepted, which are at exactly d.
C6_IndentationFollowsDepth ==
    \A n \in InTree : \A d \in Depths :
        LET t == _generate_node(heap, n, d).code
        IN  /\ PrefixLen(t[1]) = d
            /\ \A j \in 2..Len(t) :
                  \/ PrefixLen(t[j]) > d
                  \/ /\ PrefixLen(t[j]) = d
                     /\ Len(t[j]) > d
                     /\ t[j][d + 1] \in ClauseHeads

-----------------------------------------------------------------------------
(* C7 *)

\* the last operation closed a node of kind k and left a node of one of the
\* kinds ps on top of the stack
JustClosedUnder(k, ps) ==
    /\ ops # <<>>
    /\ LastOp.op = "close"
    /\ Kind(LastOp.node) = k
    /\ LastOp.par # 0
    /\ Kind(LastOp.par) \in ps

\* s is the end of seq
EndsIn(seq, s) ==
    /\ Len(s) <= Len(seq)
    /\ SubSeq(seq, Len(seq) - Len(s) + 1, Len(seq)) = s

InSomeList(n) ==
    \/ n \in Range(root_nodes)
    \/ \E m \in 1..Len(heap) : n \in Children(heap, m)

\* C7: closing an else under an open if, for, async for, while or try puts
\* the else's statements at the end of that parent's or_else, and the Else
\* node itself in no list.
C7_ElseSplicedIntoParent ==
    JustClosedUnder("Else", {"If", "For", "AsyncFor", "While", "Try"}) =>
        /\ EndsIn(heap[LastOp.par].or_else, heap[LastOp.node].body)
        /\ ~InSomeList(LastOp.node)

-----------------------------------------------------------------------------
(* C8 *)

\* C8: the step that closes an elif under an open If appends the Elif node,
\* with its test and its body, to the end of that If's or_else, and leaves
\* it in no body and not in the top-level sequence.
C8_ElifAppendedWhole ==
    [][(/\ TopKind = "Elif"
        /\ Len(_stack) >= 2
        /\ Kind(_stack[Len(_stack) - 1]) = "If"
        /\ _stack' = Front(_stack))
       => LET e == Last(_stack)
              p == _stack[Len(_stack) - 1]
          IN  /\ heap'[p].or_else = Append(heap[p].or_else, e)
              /\ heap'[e].kind = "Elif"
              /\ heap'[e].val = heap[e].val
              /\ heap[e].body # <<>> => heap'[e].body = heap[e].body
              /\ heap'[e].body # <<>>
              /\ root_nodes' = root_nodes
              /\ \A n \in 1..Len(heap') : e \notin Range(heap'[n].body)]_vars

C8_Witness ==
    /\ JustClosedUnder("Elif", {"If"})
    /\ Len(heap[LastOp.par].or_else) = 2
    /\ Last(heap[LastOp.par].or_else) = LastOp.node

-----------------------------------------------------------------------------
(* C9 *)

\* C9: a closed except handler is the last handler of the Try left on top
\* of the stack or, with anything else or nothing on the stack, the last
\* element of the current insertion target.
C9_HandlerNeverLost ==
    (ops # <<>> /\ LastOp.op = "close" /\ Kind(LastOp.node) = "ExceptHandler") =>
        IF LastOp.par # 0 /\ Kind(LastOp.par) = "Try"
        THEN EndsIn(heap[LastOp.par].handlers, <<LastOp.node>>)
        ELSE EndsIn(CurrentTarget, <<LastOp.node>>)

-----------------------------------------------------------------------------
(* C10 *)

\* the finally blocks closed with t on top of the stack, in close order
FinallyClosedUnder(t) ==
    SelectSeq(ops, LAMBDA o : /\ o.op = "close"
                              /\ o.par = t
                              /\ Kind(o.node) = "FinallyBuilder")

\* C10: a Try's finalbody is the concatenation, in close order, of the
\* statement lists of the finally blocks closed under it: each close
\* extends it and none replaces what it held.
C10_FinalbodyConcatenates ==
    \A t \in 1..Len(heap) :
        Kind(t) = "Try" =>
            LET closed == FinallyClosedUnder(t)
            IN  heap[t].finalbody =
                    Concat([j \in 1..Len(closed) |-> heap[closed[j].node].body])

C10_Witness ==
    \E t \in 1..Len(heap) :
        /\ Kind(t) = "Try"
        /\ Len(FinallyClosedUnder(t)) >= 2

-----------------------------------------------------------------------------
(* C11 *)

\* every list of a node is what it was
SameLists(a, b) ==
    /\ a.body = b.body
    /\ a.or_else = b.or_else
    /\ a.handlers = b.handlers
    /\ a.finalbody = b.finalbody
    /\ a.cases = b.cases

\* the case clause at position i of the stack was opened with no Match
\* directly below it: closing it will drop it
DroppedCaseAt(i) ==
    /\ Kind(_stack[i]) = "MatchCase"
    /\ (i = 1 \/ Kind(_stack[i - 1]) # "Match")

\* C11: the step that closes a case clause under an open Match appends the
\* MatchCase to that Match's cases; from the opening of a clause that will be
\* dropped up to and including its close, no step changes the top-level
\* sequence or a list of a node that existed when the clause was opened.
C11_CaseAttachedOrDropped ==
    [][/\ (TopKind = "MatchCase" /\ _stack' = Front(_stack)
              /\ Len(_stack) >= 2 /\ Kind(_stack[Len(_stack) - 1]) = "Match")
          => LET m == _stack[Len(_stack) - 1]
             IN  heap'[m].cases = Append(heap[m].cases, Last(_stack))
       /\ \A i \in 1..Len(_stack) :
             DroppedCaseAt(i) =>
                /\ root_nodes' = root_nodes
                /\ \A n \in 1..(_stack[i] - 1) : SameLists(heap'[n], heap[n])]_vars

-----------------------------------------------------------------------------
(* C12 *)

\* C12: a step that is an add_node call leaves the stack as it is and makes
\* the node the new last element of the body of the node on top of the
\* stack, whatever its kind, or of the top-level sequence when the stack is
\* empty.
C12_AddNodeTargetsStackTop ==
    [][(Len(ops') = Len(ops) + 1 /\ ops'[Len(ops')].op = "add")
       => LET n == ops'[Len(ops')].node
          IN  /\ _stack' = _stack
              /\ IF _stack # <<>>
                 THEN /\ heap'[Last(_stack)].body = Append(heap[Last(_stack)].body, n)
                      /\ root_nodes' = root_nodes
                 ELSE root_nodes' = Append(root_nodes, n)]_vars

-----------------------------------------------------------------------------
(* C13 *)

\* the positions of seq that hold n
Count(seq, n) == Cardinality({i \in 1..Len(seq) : seq[i] = n})

\* the positions of the lists of node m that hold n
CountIn(m, n) ==
    Count(heap[m].body, n) + Count(heap[m].or_else, n) + Count(heap[m].handlers, n)
        + Count(heap[m].finalbody, n) + Count(heap[m].cases, n)

\* the positions that hold n in the top-level sequence and in the lists of
\* the nodes of `owners` among the first m objects
RECURSIVE Occurrences(_, _, _)
Occurrences(n, owners, m) ==
    IF m = 0
    THEN Count(root_nodes, n)
    ELSE Occurrences(n, owners, m - 1) + (IF m \in owners THEN CountIn(m, n) ELSE 0)

\* the scopes opened and not closed, in the order they were opened
OpenScopes ==
    LET o == SelectSeq(ops, LAMBDA e : e.op = "open" /\ ~WasClosed(e.node))
    IN  [j \in 1..Len(o) |-> o[j].node]

\* the last operation closed an else or elif and left no compatible parent
\* on top of the stack
OrphanContinuationClosed ==
    /\ ops # <<>>
    /\ LastOp.op = "close"
    /\ Kind(LastOp.node) \in {"Else", "Elif"}
    /\ (LastOp.par = 0 \/ Kind(LastOp.par) \notin {"If", "While", "Try"})

-----------------------------------------------------------------------------
(* C14 *)

IsPrefix(a, b) == Len(a) <= Len(b) /\ SubSeq(b, 1, Len(a)) = a

NoRepeat(seq) == \A i, j \in 1..Len(seq) : i < j => seq[i] # seq[j]

\* objects are numbered as their operations begin: a list in the order in
\* which the operations of its elements were begun
InBegunOrder(seq) == \A i, j \in 1..Len(seq) : i < j => seq[i] < seq[j]

\* the lists of node m
ListsOf(h, m) ==
    <<h[m].body, h[m].or_else, h[m].handlers, h[m].finalbody, h[m].cases>>

\* the node on top of the stack when the operation that made n began (0:
\* the stack was empty), -1 for a Pass, which no operation of the caller made
BegunUnder(o, n) ==
    LET b == {i \in 1..Len(o) : o[i].op # "close" /\ o[i].node = n}
    IN  IF b = {} THEN -1 ELSE o[CHOOSE i \in b : TRUE].par

\* two elements of seq whose operations were begun directly under the same
\* open construct (or both at top level) are there in the order begun
SiblingsInOrder(o, seq) ==
    \A i, j \in 1..Len(seq) :
        (i < j /\ BegunUnder(o, seq[i]) # -1
               /\ BegunUnder(o, seq[i]) = BegunUnder(o, seq[j]))
        => seq[i] < seq[j]

\* C14: every step leaves every list (top-level sequence, body, or_else,
\* handlers, finalbody, cases) a prefix of what it becomes, so lists only
\* grow at their end; no list holds an element twice; the lists of a
\* construct are in the order in which the operations of their elements were
\* begun, and so are, in any list, siblings begun under one open construct.
C14_ListsOnlyGrowAtEnd ==
    [][/\ IsPrefix(root_nodes, root_nodes')
       /\ NoRepeat(root_nodes')
       /\ SiblingsInOrder(ops', root_nodes')
       /\ \A m \in 1..Len(heap) :
             /\ m <= Len(heap')
             /\ \A k \in 1..5 : IsPrefix(ListsOf(heap, m)[k], ListsOf(heap', m)[k])
       /\ \A m \in 1..Len(heap') : \A k \in 1..5 :
             InBegunOrder(ListsOf(heap', m)[k])]_vars

C14_Witness ==
    \E m \in 1..Len(heap) :
        /\ Len(heap[m].body) = 2
        /\ Kind(heap[m].body[1]) \in PlainKinds
        /\ Kind(heap[m].body[2]) = "Expr"
        /\ WasClosed(m)

-----------------------------------------------------------------------------
(* C15 *)

\* C15: when every scope is closed and the Builder context has exited, every
\* node of the tree that has a body, at any depth, has a non-empty one.
C15_NoEmptyBodyWhenFinished ==
    (Exited /\ _stack = <<>>) =>
        \A n \in InTree : BodyNode(Kind(n)) => heap[n].body # <<>>

-----------------------------------------------------------------------------
(* C16 *)

\* the nodes the builder holds: the tree and the open scopes with what they
\* hold so far
Held == Reach(heap, Range(root_nodes) \cup Range(_stack), {})

\* every position of the top-level sequence and of the lists of the nodes
\* of `owners` among the first m objects, one after the other
RECURSIVE Slots(_, _)
Slots(owners, m) ==
    IF m = 0
    THEN root_nodes
    ELSE IF m \in owners
         THEN Slots(owners, m - 1) \o heap[m].body \o heap[m].or_else
                  \o heap[m].handlers \o heap[m].finalbody \o heap[m].cases
         ELSE Slots(owners, m - 1)

\* C16: every node of the tree is at exactly one position of exactly one
\* list of the tree; no node the builder holds is at more than one position
\* of the lists the builder holds, an open scope is at none, and no node is
\* reachable from itself.
C16_SinglyOwned ==
    LET tree == InTree
        held == Held
        inTree == Slots(tree, Len(heap))
        inHeld == Slots(held, Len(heap))
    IN  /\ NoRepeat(inTree)
        /\ Range(inTree) = tree
        /\ NoRepeat(inHeld)
        /\ Range(_stack) \cap Range(inHeld) = {}
        /\ \A n \in held : n \notin Reach(heap, Children(heap, n), {})

C16_Witness ==
    \E n \in Range(root_nodes) : \E e \in 1..Len(heap) :
        /\ Kind(n) = "If"
        /\ Kind(e) = "Else"
        /\ heap[n].or_else # <<>>
        /\ heap[e].body = heap[n].or_else
        /\ Kind(heap[e].body[1]) = "Expr"

-----------------------------------------------------------------------------
(* C17 *)

\* the text of a list of statements rendered at level lvl
TextOf(nodes, lvl) == _generate_nodes(heap, nodes, lvl).code

\* C17: a Try renders as "try:", its body one level deeper, each handler in
\* the order of the handlers list, "else:" and the or_else statements only
\* when or_else is non-empty, "finally:" and the finalbody statements only
\* when finalbody is non-empty, in that order, however it was built.
C17_TryClausesInFixedOrder ==
    \A t \in 1..Len(heap) : \A d \in Depths :
        Kind(t) = "Try" =>
            _generate_node(heap, t, d).code =
                Line(d, <<"try:">>)
                \o TextOf(heap[t].body, d + 1)
                \o Concat([j \in 1..Len(heap[t].handlers) |->
                              _generate_node(heap, heap[t].handlers[j], d).code])
                \o (IF heap[t].or_else = <<>> THEN <<>>
                    ELSE Line(d, <<"else:">>) \o TextOf(heap[t].or_else, d + 1))
                \o (IF heap[t].finalbody = <<>> THEN <<>>
                    ELSE Line(d, <<"finally:">>) \o TextOf(heap[t].finalbody, d + 1))

\* a Try whose finally block was closed before its handler was
C17_Witness ==
    \E t \in 1..Len(heap) : \E i, j \in 1..Len(ops) :
        /\ Kind(t) = "Try"
        /\ i < j
        /\ ops[i] = Op("close", ops[i].node, t)
        /\ Kind(ops[i].node) = "FinallyBuilder"
        /\ ops[j] = Op("close", ops[j].node, t)
        /\ Kind(ops[j].node) = "ExceptHandler"
        /\ heap[t].handlers # <<>>
        /\ heap[t].finalbody # <<>>
        /\ WasClosed(t)

-----------------------------------------------------------------------------
(* C18 *)

\* node classes _generate_node has no rule for
UnknownKinds == {"Finally", "Module"}

\* the texts the statements of nodes contribute one by one at level lvl
TextsOf(nodes, lvl) == GenerateEach(heap, nodes, 1, lvl, <<>>, TRUE).texts

\* the statement lists: the top-level sequence and every body
StatementLists == {root_nodes} \cup {heap[m].body : m \in 1..Len(heap)}

\* C18: a Finally or Module node in statement position renders as the one
\* line "# Unknown node: <class name>" at the current indentation and leaves
\* the indentation where it was; a statement list holding one renders as the
\* statements before it, that line, and the statements after it, rendered as
\* they are without it; every file written holds that text of the tree.
C18_UnknownNodePlaceholder ==
    /\ \A n \in 1..Len(heap) : \A d \in Depths :
          Kind(n) \in UnknownKinds =>
             _generate_node(heap, n, d) =
                [code |-> Line(d, <<"# Unknown node: ", Kind(n)>>), lvl |-> d]
    /\ \A l \in StatementLists : \A i \in 1..Len(l) : \A d \in Depths :
          Kind(l[i]) \in UnknownKinds =>
             TextOf(l, d) =
                Concat(TextsOf(SubSeq(l, 1, i - 1), d)
                       \o <<Line(d, <<"# Unknown node: ", Kind(l[i])>>)>>
                       \o TextsOf(SubSeq(l, i + 1, Len(l)), d))
    /\ \A f \in files : f.text = TextOf(root_nodes, 0)

\* a file was written from a tree with an unknown node inside a body,
\* followed by a sibling
C18_Witness ==
    /\ files # {}
    /\ \E m \in InTree :
          /\ Len(heap[m].body) = 2
          /\ Kind(heap[m].body[1]) \in UnknownKinds
          /\ Kind(heap[m].body[2]) = "Expr"
          /\ \A f \in files : \E j \in 1..(Len(f.text) - 1) :
                /\ f.text[j] = <<indent_char, "# Unknown node: ", Kind(heap[m].body[1])>>
                /\ f.text[j + 1] = <<indent_char, heap[heap[m].body[2]].val>>

-----------------------------------------------------------------------------
(* C19 *)

\* C19: a step that is a generate call in file mode with file_name None or
\* empty ends in ValueError, writes no file, and leaves the builder's tree
\* and stack and every generator's indent_level as they were.
C19_FileModeNeedsFileName ==
    [][(last_call'.call = "generate" /\ last_call'.arg \in {"None", ""})
       => /\ last_call'.exc = "ValueError"
          /\ files' = files
          /\ heap' = heap
          /\ root_nodes' = root_nodes
          /\ _stack' = _stack
          /\ indent_level' = indent_level]_vars

\* the call failed after a file had been written from a tree with a block
C19_Witness ==
    /\ last_call = Call("generate", "", "ValueError")
    /\ files # {}
    /\ \E n \in Range(root_nodes) : heap[n].body # <<>>

-----------------------------------------------------------------------------
(* C20 *)

\* C20: a step that constructs a function scoped operation with decorators
\* that are neither None nor a list ends in ValueError and pushes nothing:
\* the stack, the top-level sequence and every node are as they were.
C20_DecoratorsMustBeAList ==
    [][(last_call'.call = "FunctionDefBuilder" /\ last_call'.arg \notin {"None", "list"})
       => /\ last_call'.exc = "ValueError"
          /\ _stack' = _stack
          /\ root_nodes' = root_nodes
          /\ heap' = heap
          /\ ops' = ops]_vars

\* the construction failed inside an open scope, with a statement at top level
C20_Witness ==
    /\ last_call = Call("FunctionDefBuilder", "tuple", "ValueError")
    /\ _stack # <<>>
    /\ root_nodes # <<>>

-----------------------------------------------------------------------------
(* C21: an exception raised inside the open scoped operations *)

MaxRaiseNodes == 3

\* an exception of the caller's code, raised in a with block and not caught
Raised == Call("with", "", "Exception")

Propagating == last_call = Raised

\* the caller's code inside the innermost open with block raises
raise_in_block ==
    /\ _stack # <<>>
    /\ ~Propagating
    /\ last_call' = Raised
    /\ UNCHANGED <<heap, root_nodes, _stack, ops, indent_level, renders, files>>

\* mutant: __exit__ returns True
ExitReturn_true == TRUE

\* what every __exit__ returns
ExitReturn == FALSE

\* the with statement after __exit__ returned: a true value swallows the
\* exception in flight, a false one lets it travel on
WithExit ==
    /\ indent_level' = indent_level
    /\ renders' = <<>>
    /\ files' = files
    /\ last_call' = IF ExitReturn THEN NoCall ELSE last_call

\* scoped operations inside `with Builder()`, with a block that may raise:
\* once an exception travels, the only code that runs is the __exit__ of
\* each enclosing with statement, innermost first
NextRaise ==
    \/ ~Propagating /\ ~Exited /\ Created < MaxRaiseNodes /\ IfBuilder_enter /\ BuilderStep
    \/ ~Propagating /\ ~Exited /\ Created < MaxRaiseNodes /\ ElseBuilder_enter /\ BuilderStep
    \/ ~Propagating /\ ~Exited /\ Created < MaxRaiseNodes /\ ForBuilder_enter /\ BuilderStep
    \/ ~Propagating /\ ~Exited /\ Created < MaxRaiseNodes /\ TryBuilder_enter /\ BuilderStep
    \/ ~Propagating /\ ~Exited /\ Created < MaxRaiseNodes /\ ExceptBuilder_enter /\ BuilderStep
    \/ ~Propagating /\ ~Exited /\ Created < MaxRaiseNodes /\ add_node /\ BuilderStep
    \/ ~Exited /\ raise_in_block
    \/ PlainBuilder_exit /\ WithExit
    \/ ElseBuilder_exit /\ WithExit
    \/ ExceptBuilder_exit /\ WithExit
    \/ Builder_exit /\ WithExit

SpecRaise == Init /\ [][NextRaise]_vars

\* the close of node n with parent p attached n as the code's rule for a
\* close without exception says (an ExceptHandler closed on an empty stack
\* is attached nowhere)
AttachedByRule(n, p) ==
    IF p # 0 /\ Kind(n) = "Else" /\ Kind(p) \in OrElseParents
    THEN heap'[p].or_else = heap[p].or_else \o heap'[n].body
    ELSE IF p # 0 /\ Kind(n) = "ExceptHandler" /\ Kind(p) = "Try"
    THEN heap'[p].handlers = Append(heap[p].handlers, n)
    ELSE IF p = 0 /\ Kind(n) = "ExceptHandler"
    THEN root_nodes' = root_nodes
    ELSE LET t == _get_current_body(heap', _stack')
             target == IF t = 0 THEN root_nodes' ELSE heap'[t].body
         IN  target # <<>> /\ Last(target) = n

\* C21: a close that runs while an exception travels pops exactly its own
\* node, leaves a non-empty body on it (one Pass if it was empty, the body
\* as it was otherwise), attaches it by the rule of a normal close, leaves
\* the stack as it was before the matching open, and the exception travels
\* on; the exit of the Builder does not swallow it either.
C21_CloseRunsOnException ==
    [][Propagating =>
          /\ Propagating'
          /\ _stack' # _stack =>
                LET n == Last(_stack)
                    p == Top(Front(_stack))
                IN  /\ _stack' = Front(_stack)
                    /\ ops' = Append(ops, Op("close", n, p))
                    /\ heap'[n].body # <<>>
                    /\ heap[n].body # <<>> => heap'[n].body = heap[n].body
                    /\ heap[n].body = <<>> =>
                          /\ Len(heap'[n].body) = 1
                          /\ heap'[heap'[n].body[1]].kind = "Pass"
                    /\ AttachedByRule(n, p)]_vars

\* the exception left the Builder context after it closed an empty scope
\* that now sits in the tree with its Pass
C21_Witness ==
    /\ Propagating
    /\ Exited
    /\ \E i \in 1..Len(ops) - 1 :
          /\ ops[i].op = "open"
          /\ ops[i + 1] = Op("close", ops[i].node, ops[i].par)
          /\ ops[i].node \in InTree
          /\ Len(heap[ops[i].node].body) = 1
    /\ \E n \in InTree : Kind(n) = "Else"

-----------------------------------------------------------------------------
(* C22: a function with parameters and a return statement *)

MaxFuncNodes == 2

FuncNames == {"greet"}

ParamNames == {"name", "x"}

\* the positional parameter lists a caller builds: none, one parameter
\* without and with an annotation, two parameters
ArgLists ==
    {<<>>, <<Arg("name", "")>>, <<Arg("name", "int")>>,
     <<Arg("name", ""), Arg("x", "int")>>}

\* the Arguments objects a caller passes to func: a positional list and no
\* or one keyword-only parameter
ArgumentsValues ==
    {Arguments(pos, kw) : pos \in ArgLists, kw \in {<<>>, <<Arg("k", "")>>}}

\* func(builder, name, args).__enter__: FunctionDefBuilder.__init__ builds
\* the FunctionDef with the Arguments given, __enter__ pushes it
func(name, args) ==
    LET n == Len(heap) + 1
    IN  /\ heap' = Append(heap, [NewNode("FunctionDef", name) EXCEPT !.args = args])
        /\ _stack' = Append(_stack, n)
        /\ root_nodes' = root_nodes
        /\ ops' = Append(ops, Op("open", n, Top(_stack)))

\* Builder.add_node(Return(value=Name(id=v))); v = "": Return() without value
add_node_return(v) ==
    LET n == Len(heap) + 1
        h1 == Append(heap, NewNode("Return", v))
        t == _get_current_body(h1, _stack)
    IN  /\ heap' = BodyAppend(h1, t, n)
        /\ root_nodes' = RootAppend(root_nodes, t, n)
        /\ _stack' = _stack
        /\ ops' = Append(ops, Op("add", n, Top(_stack)))

\* functions with parameters, built and rendered
NextFunc ==
    \/ Created < MaxFuncNodes
          /\ \E name \in FuncNames, args \in ArgumentsValues : func(name, args)
          /\ BuilderStep
    \/ Created < MaxFuncNodes
          /\ \E v \in ParamNames \cup {""} : add_node_return(v)
          /\ BuilderStep
    \/ Created < MaxFuncNodes /\ add_node /\ BuilderStep
    \/ PlainBuilder_exit /\ BuilderStep
    \/ \E g \in Generators : generate(g)

SpecFunc == Init /\ [][NextFunc]_vars

\* the tree is the one function `greet` with the one unannotated parameter
\* `name` and the one statement `return name`, closed
GreetBuilt ==
    /\ _stack = <<>>
    /\ Len(root_nodes) = 1
    /\ LET f == heap[root_nodes[1]]
       IN  /\ f.kind = "FunctionDef"
           /\ f.val = "greet"
           /\ f.args = Arguments(<<Arg("name", "")>>, <<>>)
           /\ Len(f.body) = 1
           /\ heap[f.body[1]].kind = "Return"
           /\ heap[f.body[1]].val = "name"

\* C22: every rendering of the function `greet` with the one unannotated
\* parameter `name` and the body `return name` is exactly the two lines
\* "def greet(name):" and, after one tab, "return name".
C22_GreetRendersTwoLines ==
    GreetBuilt =>
        \A i \in 1..Len(renders) :
            renders[i].code = << <<"def ", "greet", "(", "name", ")", ":">>,
                                 <<"\t", "return ", "name">> >>

C22_Witness ==
    /\ GreetBuilt
    /\ Len(renders) = 2
    /\ renders[1].gen = renders[2].gen

-----------------------------------------------------------------------------
(* C23: generate in both modes *)

MaxModeNodes == 2

\* a conditional with an else, rendered at any moment in console mode or in
\* file mode
NextModes ==
    \/ Created < MaxModeNodes /\ IfBuilder_enter /\ BuilderStep
    \/ Created < MaxModeNodes /\ ElseBuilder_enter /\ BuilderStep
    \/ Created < MaxModeNodes /\ add_node /\ BuilderStep
    \/ PlainBuilder_exit /\ BuilderStep
    \/ ElseBuilder_exit /\ BuilderStep
    \/ \E g \in Generators : generate(g)
    \/ \E g \in Generators, f \in FileNames :
          /\ f = "out.py" => Len(renders) < MaxFiles
          /\ generate_file(g, f)

SpecModes == Init /\ [][NextModes]_vars

\* the step is a call of generate: in console mode and in file mode with a
\* name it records a rendering, in file mode it is the last call
GenerateCalled ==
    \/ Len(renders') > Len(renders)
    \/ last_call'.call = "generate"

\* C23: a call of generate, in console mode or in file mode, failing or
\* not, leaves the top-level sequence, the stack and every field and list
\* of every node as they were.
C23_GenerateLeavesTreeAlone ==
    [][GenerateCalled =>
          /\ root_nodes' = root_nodes
          /\ heap' = heap
          /\ _stack' = _stack]_vars

\* a tree with a conditional and an open scope was rendered in console mode
\* after a file was written from it
C23_Witness ==
    /\ files # {}
    /\ Len(renders) >= 2
    /\ last_call = NoCall
    /\ _stack # <<>>
    /\ \E n \in Range(root_nodes) : heap[n].kind = "If"

-----------------------------------------------------------------------------
(* C24 *)

\* n is an element of a body or of the top-level sequence
OrdinaryChild(n) ==
    \/ n \in Range(root_nodes)
    \/ \E m \in 1..Len(heap) : n \in Range(heap[m].body)

\* the parent kinds under which the close of a fragment of kind k reattaches
CompatibleParents(k) ==
    CASE k = "Else" -> {"If", "While", "Try"}
      [] k = "ExceptHandler" -> {"Try"}
      [] OTHER -> {}

\* n was closed with a compatible parent on top of the stack
ClosedUnderCompatible(n) ==
    \E i \in 1..Len(ops) :
        /\ ops[i] = Op("close", n, ops[i].par)
        /\ ops[i].par # 0
        /\ Kind(ops[i].par) \in CompatibleParents(Kind(n))

-----------------------------------------------------------------------------
(* C25 *)

\* C25: the stack is the scopes opened and not yet closed, in the order
\* opened (so it is empty once every scope is closed); a close removed
\* exactly the entry of its own open and left the stack as it was before
\* that open; and the close of a plain composite left its node as the last
\* element of the body of the new stack top, or of the top-level sequence
\* if the stack is then empty.
C25_StackDiscipline ==
    /\ _stack = OpenScopes
    /\ (ops # <<>> /\ LastOp.op = "close") =>
          /\ LastOp.node \notin Range(_stack)
          /\ Top(_stack) = LastOp.par
          /\ Kind(LastOp.node) \in PlainKinds =>
                IF _stack = <<>>
                THEN root_nodes # <<>> /\ Last(root_nodes) = LastOp.node
                ELSE /\ heap[Last(_stack)].body # <<>>
                     /\ Last(heap[Last(_stack)].body) = LastOp.node

-----------------------------------------------------------------------------
(* C26 *)

ContinuationKinds == {"Else", "Elif", "ExceptHandler", "FinallyBuilder", "MatchCase"}

\* C26: a step changes the or_else, handlers, finalbody or cases of a node
\* only if it is the close of an else, elif, except, finally or case, and
\* then only on the node that is the new stack top: add_node and the open
\* and close of a plain composite leave every such list as it was.
C26_ContinuationListsChangeAtReattachment ==
    [][\A m \in 1..Len(heap) :
          (\/ heap'[m].or_else # heap[m].or_else
           \/ heap'[m].handlers # heap[m].handlers
           \/ heap'[m].finalbody # heap[m].finalbody
           \/ heap'[m].cases # heap[m].cases)
          => /\ _stack # <<>>
             /\ Kind(Last(_stack)) \in ContinuationKinds
             /\ ops' = Append(ops, Op("close", Last(_stack), m))
             /\ _stack' = Front(_stack)
             /\ _stack' # <<>>
             /\ Last(_stack') = m]_vars

\* an If holds an else's statements in or_else, and a plain composite was
\* then opened, filled and closed inside it
C26_Witness ==
    /\ Len(ops) >= 3
    /\ LastOp.op = "close"
    /\ Kind(LastOp.node) \in PlainKinds
    /\ LastOp.par # 0
    /\ heap[LastOp.par].or_else # <<>>

-----------------------------------------------------------------------------
(* C27 *)

\* the last operation closed an else or an elif and left an Elif on top of
\* the stack
ContinuationClosedUnderElif ==
    /\ ops # <<>>
    /\ LastOp.op = "close"
    /\ Kind(LastOp.node) \in {"Else", "Elif"}
    /\ LastOp.par # 0
    /\ Kind(LastOp.par) = "Elif"

\* C27: an else or elif closed while an Elif is the new stack top is not an
\* element of that Elif's body, and it is attached to a continuation list:
\* the Elif node is an element of some or_else, the else's statements are
\* the end of some or_else.
C27_ElifTakesContinuations ==
    ContinuationClosedUnderElif =>
        /\ LastOp.node \notin Range(heap[LastOp.par].body)
        /\ \E m \in 1..Len(heap) :
              IF Kind(LastOp.node) = "Elif"
              THEN LastOp.node \in Range(heap[m].or_else)
              ELSE EndsIn(heap[m].or_else, heap[LastOp.node].body)

-----------------------------------------------------------------------------
(* C28 *)

RECURSIVE Visits(_, _, _), VisitEach(_, _, _, _, _)

\* the pairs <<node, indent_level>> at each entry of _generate_node during
\* the loop over `nodes` from position i on, begun with indent_level = lvl
VisitEach(h, nodes, i, lvl, filtered) ==
    IF i > Len(nodes)
    THEN {}
    ELSE IF filtered /\ ~BaseNode(h[nodes[i]].kind)
         THEN VisitEach(h, nodes, i + 1, lvl, filtered)
         ELSE Visits(h, nodes[i], lvl)
                  \cup VisitEach(h, nodes, i + 1, _generate_node(h, nodes[i], lvl).lvl,
                                 filtered)

\* the same for one call of _generate_node on n, with the calls it makes
Visits(h, n, lvl) ==
    LET nd == h[n]
        k  == nd.kind
        b  == Block(h, nd.body, lvl)
        inBody == VisitEach(h, nd.body, 1, Deeper(lvl), TRUE)
    IN  {<<n, lvl>>} \cup
        CASE k \in {"ClassDef", "FunctionDef", "AsyncFunctionDef", "Elif", "Else",
                    "With", "MatchCase", "ExceptHandler"} -> inBody
          [] k = "If" -> inBody \cup VisitEach(h, nd.or_else, 1, b.lvl, FALSE)
          [] k \in {"For", "AsyncFor", "While"} ->
                inBody \cup VisitEach(h, nd.or_else, 1, Deeper(b.lvl), TRUE)
          [] k = "Try" ->
                LET hs == GenerateEach(h, nd.handlers, 1, b.lvl, <<>>, FALSE)
                    e == Clause(h, "else:", nd.or_else, lvl, hs.lvl)
                IN  inBody \cup VisitEach(h, nd.handlers, 1, b.lvl, FALSE)
                           \cup VisitEach(h, nd.or_else, 1, Deeper(hs.lvl), TRUE)
                           \cup VisitEach(h, nd.finalbody, 1, Deeper(e.lvl), TRUE)
          [] k = "Match" -> VisitEach(h, nd.cases, 1, Deeper(lvl), FALSE)
          [] OTHER -> {}

RECURSIVE NestingBelow(_, _, _)

\* the pairs <<node, nesting depth>> of n at depth d and of what it holds:
\* a statement of a block is one deeper than the construct the block belongs
\* to; an except clause and an elif of a conditional are clauses of their
\* construct, at its depth
NestingBelow(h, n, d) ==
    LET nd == h[n]
        clauses == Range(nd.handlers)
                      \cup {c \in Range(nd.or_else) : nd.kind = "If" /\ h[c].kind = "Elif"}
        inner == (Range(nd.body) \cup Range(nd.or_else) \cup Range(nd.finalbody)
                      \cup Range(nd.cases)) \ clauses
    IN  {<<n, d>>} \cup UNION {NestingBelow(h, c, d) : c \in clauses}
                   \cup UNION {NestingBelow(h, c, d + 1) : c \in inner}

\* C28: every generator's indent_level is 0 between calls of generate (so a
\* call returns it to the value it began with and the next call starts at
\* depth 0), and during a rendering of the tree it is never negative and is
\* d whenever a node at nesting depth d is rendered.
C28_IndentCounterBalanced ==
    /\ \A g \in Generators : indent_level[g] = 0
    /\ renders # <<>> =>
          \A v \in VisitEach(heap, root_nodes, 1, 0, TRUE) :
              /\ v[2] >= 0
              /\ v \in UNION {NestingBelow(heap, r, 0) : r \in Range(root_nodes)}

-----------------------------------------------------------------------------
(* C29 *)

\* the open scopes and everything they hold so far
OpenContents == Reach(heap, Range(_stack), {})

\* C29: no node on the stack, and nothing such a node holds, is reachable
\* from the top-level sequence, and a rendering of the builder visits none
\* of them.
C29_OpenScopesNotInTree ==
    /\ OpenContents \cap InTree = {}
    /\ renders # <<>> =>
          \A v \in VisitEach(heap, root_nodes, 1, 0, TRUE) : v[1] \notin OpenContents

\* the builder was rendered while a scope that holds a statement was open
\* and nothing was closed yet: the text is empty
C29_Witness ==
    /\ renders # <<>>
    /\ _stack # <<>>
    /\ heap[Last(_stack)].body # <<>>
    /\ root_nodes = <<>>
    /\ Last(renders).code = EmptyStr

-----------------------------------------------------------------------------
(* C30 *)

\* the else and elif continuations closed with p on top of the stack, in
\* close order
ContinuationsClosedUnder(p) ==
    SelectSeq(ops, LAMBDA o : /\ o.op = "close"
                              /\ o.par = p
                              /\ Kind(o.node) \in {"Else", "Elif"})

\* what the close of continuation n put into or_else: the statements of an
\* else block, the node of an elif
Contribution(n) == IF Kind(n) = "Else" THEN heap[n].body ELSE <<n>>

\* C30: the or_else of an If, While or Try is the concatenation, in close
\* order, of what the else and elif continuations closed under it put
\* there: the statements of each else block, the node of each elif; an else
\* block in which nothing was added puts exactly one Pass there.
C30_ElseBlocksConcatenate ==
    \A p \in 1..Len(heap) :
        Kind(p) \in {"If", "While", "Try"} =>
            LET closed == ContinuationsClosedUnder(p)
            IN  /\ heap[p].or_else =
                      Concat([j \in 1..Len(closed) |-> Contribution(closed[j].node)])
                /\ \A j \in 1..Len(closed) :
                      LET n == closed[j].node
                      IN  (Kind(n) = "Else" /\ DirectOps(n) = <<>>) =>
                              /\ Len(heap[n].body) = 1
                              /\ Kind(heap[n].body[1]) = "Pass"

\* two else blocks were closed under one parent, the first with nothing in it
C30_Witness ==
    \E p \in 1..Len(heap) :
        LET closed == ContinuationsClosedUnder(p)
        IN  /\ Kind(p) \in {"If", "While", "Try"}
            /\ Len(closed) >= 2
            /\ Kind(closed[1].node) = "Else"
            /\ Kind(closed[2].node) = "Else"
            /\ DirectOps(closed[1].node) = <<>>
            /\ Len(heap[p].or_else) >= 2

====
